---------------------------- MODULE Spec2Model ----------------------------
(***************************************************************************)
(* Model of leopers/discrete-martingales:                                  *)
(*   src/src/martingales.py             the doubling betting simulator and *)
(*                                      the unconditional martingale check *)
(*   src/src/conditional_expectation.py the two conditional-expectation    *)
(*                                      estimators and build_partial_sums  *)
(*                                                                         *)
(* The matrices B and W are numpy arrays made by zeros_like(X), X being     *)
(* the result of np.random.choice([-1, 1]): their elements are 64-bit      *)
(* two's-complement integers whose arithmetic wraps.  TLC's own integers   *)
(* are 32 bits wide, so a machine integer is a little-endian sequence of   *)
(* NLimbs digits in base Radix, and the operators below are the wrapping   *)
(* arithmetic on it.  The same operators on 2*NLimbs digits are exact for  *)
(* every value the simulator can produce and serve as the mathematical     *)
(* integers the claims speak of.                                           *)
(***************************************************************************)
EXTENDS Integers, Sequences, FiniteSets, TLC

VARIABLES
    pc,            \* which call is running and where it is
    n_paths,       \* simulate_martingale_betting_strategy: parameters
    n_steps,
    X,             \* toss matrix, entries -1 / +1
    B,             \* bet matrix (machine integers)
    W,             \* winnings matrix (machine integers)
    i,             \* outer loop index (0-based, as in the source)
    t,             \* inner loop index (0-based)
    betting,       \* the per-path flag
    coin_tosses,   \* estimators: input matrix
    et,            \* estimators: the argument t
    est,           \* estimators: what the call produced
    process,       \* check_martingale_property_by_time: input matrix
    tol,           \* tolerance, a rational <<numerator, denominator>>
    diffs          \* the returned list of booleans

vars == <<pc, n_paths, n_steps, X, B, W, i, t, betting,
          coin_tosses, et, est, process, tol, diffs>>

simVars == <<n_paths, n_steps, X, B, W, i, t, betting>>
estVars == <<coin_tosses, et, est>>
chkVars == <<process, tol, diffs>>

---------------------------------------------------------------------------
(* Bounds of the model *)

MaxPaths == 2       \* exhaustive toss matrices: at most this many paths
MaxSteps == 3       \* exhaustive toss matrices: at most this many steps
Extra == 2          \* long paths run Width + Extra steps
MaxAll == 4         \* complete toss matrices {-1,+1}^n for n up to this

(* Width of the element type of X, B and W (numpy's default integer) *)
Width == 64

Radix == 16 * 16
NLimbs == Width \div 8

---------------------------------------------------------------------------
(* Wrapping two's-complement arithmetic on digit sequences *)

Zero(n) == [k \in 1..n |-> 0]

RECURSIVE AddLimbs(_, _, _, _)
AddLimbs(a, b, k, c) ==
    IF k > Len(a) THEN <<>>
    ELSE LET s == a[k] + b[k] + c
         IN  <<s % Radix>> \o AddLimbs(a, b, k + 1, s \div Radix)

Add(a, b) == AddLimbs(a, b, 1, 0)

Not(a) == [k \in 1..Len(a) |-> Radix - 1 - a[k]]

Neg(a) == AddLimbs(Not(a), Zero(Len(a)), 1, 1)

\* a small non-negative TLC integer as n digits
RECURSIVE Digits(_, _)
Digits(v, n) == IF n = 0 THEN <<>> ELSE <<v % Radix>> \o Digits(v \div Radix, n - 1)

FromInt(v, n) == IF v >= 0 THEN Digits(v, n) ELSE Neg(Digits(-v, n))

\* b times the single digit d, truncated to Len(b) digits
RECURSIVE MulDigit(_, _, _, _)
MulDigit(b, d, k, c) ==
    IF k > Len(b) THEN <<>>
    ELSE LET s == b[k] * d + c
         IN  <<s % Radix>> \o MulDigit(b, d, k + 1, s \div Radix)

ShiftLimbs(a, m) == [k \in 1..Len(a) |-> IF k <= m THEN 0 ELSE a[k - m]]

RECURSIVE MulFrom(_, _, _)
MulFrom(a, b, k) ==
    IF k > Len(a) THEN Zero(Len(a))
    ELSE IF a[k] = 0 THEN MulFrom(a, b, k + 1)
    ELSE Add(ShiftLimbs(MulDigit(b, a[k], 1, 0), k - 1), MulFrom(a, b, k + 1))

Mul(a, b) == MulFrom(a, b, 1)

IsNeg(a) == a[Len(a)] >= Radix \div 2

SignExt(a, n) ==
    [k \in 1..n |-> IF k <= Len(a) THEN a[k]
                    ELSE IF IsNeg(a) THEN Radix - 1 ELSE 0]

Pow2(e, n) == [k \in 1..n |-> IF k = (e \div 8) + 1 THEN 2 ^ (e % 8) ELSE 0]

\* the value of a digit sequence as a TLC integer (for magnitudes below 2^31)
RECURSIVE HornerFrom(_, _)
HornerFrom(a, k) == IF k > Len(a) THEN 0 ELSE a[k] + Radix * HornerFrom(a, k + 1)

ToInt(a) == IF IsNeg(a) THEN -HornerFrom(Neg(a), 1) ELSE HornerFrom(a, 1)

\* the mathematical value of a machine integer, on twice the digits
Exact(a) == SignExt(a, 2 * Len(a))

---------------------------------------------------------------------------
(* simulate_martingale_betting_strategy (martingales.py 4-49) *)

MInt(v) == FromInt(v, NLimbs)

\* np.zeros_like(X)
ZerosLike(M) == [r \in 1..Len(M) |-> [c \in 1..Len(M[r]) |-> MInt(0)]]

\* Stake with the doubling left out: the stake of the previous step again
StakeNoDouble(Xrow, Brow, tt) ==
    IF tt = 0 THEN MInt(1)
    ELSE IF Xrow[tt] = -1 THEN Brow[tt]
    ELSE MInt(0)

\* Stake deciding on the toss of the step itself instead of the previous one
StakeLookahead(Xrow, Brow, tt) ==
    IF tt = 0 THEN MInt(1)
    ELSE IF Xrow[tt + 1] = -1 THEN Mul(MInt(2), Brow[tt])
    ELSE MInt(0)

\* lines 37-42: the stake of step tt of a path that is still betting
Stake(Xrow, Brow, tt) ==
    IF tt = 0 THEN MInt(1)
    ELSE IF Xrow[tt] = -1 THEN Mul(MInt(2), Brow[tt])
    ELSE MInt(0)

\* lines 37-43: whether the path is still betting after choosing the stake
StillBetting(Xrow, tt) == tt = 0 \/ Xrow[tt] = -1

\* line 46
Delta(b, x) == Mul(b, MInt(x))

\* line 47
Winnings(Wrow, tt, delta) == IF tt > 0 THEN Add(Wrow[tt], delta) ELSE delta

\* CarryForward with the copy left out: the entry keeps the 0 of zeros_like
CarryForwardZero(Wrow, tt) == MInt(0)

\* line 33: the winnings of a step of a stopped path
CarryForward(Wrow, tt) == Wrow[tt]

\* the toss matrices the model starts from ------------------------------

PM == {-1, 1}

\* the value of the variables a specification does not use
Idle == <<>>

Rows(n) == [1..n -> PM]

SmallMatrices ==
    UNION { [1..p -> Rows(s)] : p \in 1..MaxPaths, s \in 1..MaxSteps }

\* a path of n tosses losing until step k (0-based; k = n: never winning),
\* winning at k, and tossing `tail` ever after
LongRow(n, k, tail) ==
    [c \in 1..n |-> IF c - 1 < k THEN -1 ELSE IF c - 1 = k THEN 1 ELSE tail]

LongSteps == Width + Extra

LongMatrices ==
    { <<LongRow(LongSteps, k, tail)>> : k \in 0..LongSteps, tail \in PM }

InitSim ==
    /\ pc = "loop"
    /\ X \in SmallMatrices \cup LongMatrices
    /\ n_paths = Len(X)
    /\ n_steps = Len(X[1])
    /\ B = ZerosLike(X)
    /\ W = ZerosLike(X)
    /\ i = 0
    /\ t = 0
    /\ betting = TRUE
    /\ coin_tosses = Idle /\ et = 0 /\ est = Idle
    /\ process = Idle /\ tol = Idle /\ diffs = Idle

\* lines 31-34
StepStopped ==
    /\ pc = "loop"
    /\ t < n_steps
    /\ ~betting
    /\ B' = [B EXCEPT ![i + 1][t + 1] = MInt(0)]
    /\ W' = [W EXCEPT ![i + 1][t + 1] = CarryForward(W[i + 1], t)]
    /\ t' = t + 1
    /\ UNCHANGED <<pc, n_paths, n_steps, X, i, betting>>

\* lines 36-47
StepBetting ==
    /\ pc = "loop"
    /\ t < n_steps
    /\ betting
    /\ LET b == Stake(X[i + 1], B[i + 1], t)
           delta == Delta(b, X[i + 1][t + 1])
       IN  /\ B' = [B EXCEPT ![i + 1][t + 1] = b]
           /\ W' = [W EXCEPT ![i + 1][t + 1] = Winnings(W[i + 1], t, delta)]
    /\ betting' = StillBetting(X[i + 1], t)
    /\ t' = t + 1
    /\ UNCHANGED <<pc, n_paths, n_steps, X, i>>

\* line 28-30: the next path starts betting at step 0
NextPath ==
    /\ pc = "loop"
    /\ t = n_steps
    /\ i + 1 < n_paths
    /\ i' = i + 1
    /\ t' = 0
    /\ betting' = TRUE
    /\ UNCHANGED <<pc, n_paths, n_steps, X, B, W>>

\* line 49
Return ==
    /\ pc = "loop"
    /\ t = n_steps
    /\ i + 1 = n_paths
    /\ pc' = "done"
    /\ UNCHANGED simVars

NextSim ==
    \/ (StepStopped /\ UNCHANGED <<estVars, chkVars>>)
    \/ (StepBetting /\ UNCHANGED <<estVars, chkVars>>)
    \/ (NextPath /\ UNCHANGED <<estVars, chkVars>>)
    \/ (Return /\ UNCHANGED <<estVars, chkVars>>)

Spec == InitSim /\ [][NextSim]_vars

---------------------------------------------------------------------------
(* Claims about the simulator.  Rows and columns of the matrices are       *)
(* 1-based here: entry [r][c] is the source's [r - 1, c - 1].              *)

\* entry [r][c] of B and W has been written by the loop
Filled(r, c) ==
    /\ r \in 1..n_paths /\ c \in 1..n_steps
    /\ (r < i + 1 \/ (r = i + 1 /\ c <= t))

\* 0-based step of the first win of a path, Len(Xrow) when it never wins
RECURSIVE FirstWinFrom(_, _)
FirstWinFrom(Xrow, c) ==
    IF c > Len(Xrow) THEN Len(Xrow)
    ELSE IF Xrow[c] = 1 THEN c - 1 ELSE FirstWinFrom(Xrow, c + 1)

FirstWin(Xrow) == FirstWinFrom(Xrow, 1)

Min(a, b) == IF a <= b THEN a ELSE b

EInt(v) == FromInt(v, 2 * NLimbs)

EPow2(e) == Pow2(e, 2 * NLimbs)

\* the simulation has returned: every entry of B and W is written
Returned == pc = "done"

\* C1: stop after first win.  For every path whose first win is at step k,
\* every later step t' > k has B[t'] = 0 and W[t'] = W[k], whatever the
\* later tosses are, and the path is no longer Betting once step k + 1 has
\* been processed.
C1_StopAfterFirstWin ==
    \A r \in 1..n_paths :
        LET k == FirstWin(X[r])
        IN  /\ \A c \in (k + 2)..n_steps :
                 Filled(r, c) => (B[r][c] = MInt(0) /\ W[r][c] = W[r][k + 1])
            /\ (pc = "loop" /\ r = i + 1 /\ t >= k + 2) => ~betting

\* C1 witness: a finished path that won, was stopped for at least two more
\* steps, and tossed both a win and a loss after its first win.
C1_Witness ==
    /\ Returned
    /\ \E r \in 1..n_paths : \E c1, c2 \in 1..n_steps :
         /\ c1 - 1 > FirstWin(X[r]) /\ c2 - 1 > FirstWin(X[r])
         /\ X[r][c1] = 1 /\ X[r][c2] = -1
         /\ W[r][c1] = W[r][c2]

\* whether the path enters step tt (0-based) in state Betting
EntersBetting(Xrow, tt) == tt = 0 \/ FirstWin(Xrow) >= tt - 1

\* the stake rule at entry [r][c], as a statement about integers
StakeRuleAt(r, c) ==
    /\ (c = 1) => Exact(B[r][c]) = EInt(1)
    /\ (c > 1 /\ EntersBetting(X[r], c - 1) /\ X[r][c - 1] = -1) =>
         Exact(B[r][c]) = Add(Exact(B[r][c - 1]), Exact(B[r][c - 1]))
    /\ (c > 1 /\ EntersBetting(X[r], c - 1) /\ X[r][c - 1] = 1) =>
         Exact(B[r][c]) = EInt(0)

\* the state of the path after the step that has just been processed
FlagRule ==
    (pc = "loop" /\ t > 1 /\ EntersBetting(X[i + 1], t - 1)) =>
        (betting <=> X[i + 1][t - 1] = -1)

\* C2: stake rule.  B[i,0] = 1; at each step t > 0 entered in state Betting,
\* B[i,t] = 2 * B[i,t-1] and the path stays Betting if X[i,t-1] = -1, and
\* B[i,t] = 0 and the path becomes Stopped if X[i,t-1] = +1;
\* X = [1,-1,1] gives B = [1,0,0], X = [-1,1,-1] gives B = [1,2,0].
C2_StakeRule ==
    /\ FlagRule
    /\ Returned =>
         \A r \in 1..n_paths :
            /\ \A c \in 1..n_steps : StakeRuleAt(r, c)
            /\ (X[r] = <<1, -1, 1>>) => B[r] = <<MInt(1), MInt(0), MInt(0)>>
            /\ (X[r] = <<-1, 1, -1>>) => B[r] = <<MInt(1), MInt(2), MInt(0)>>

\* C2 restricted to the steps t <= Width - 2, whose stake 2^t is below
\* 2^(Width-1): there the stake rule holds, so C2 fails by the wrap of the
\* doubling alone.
C2_StakeRuleInRange ==
    /\ FlagRule
    /\ Returned =>
         \A r \in 1..n_paths :
            /\ \A c \in 1..Min(n_steps, Width - 1) : StakeRuleAt(r, c)
            /\ (X[r] = <<1, -1, 1>>) => B[r] = <<MInt(1), MInt(0), MInt(0)>>
            /\ (X[r] = <<-1, 1, -1>>) => B[r] = <<MInt(1), MInt(2), MInt(0)>>

\* B[c] * X[c] as a mathematical integer (X[c] is -1 or +1)
BX(Brow, Xrow, c) == IF Xrow[c] = 1 THEN Exact(Brow[c]) ELSE Neg(Exact(Brow[c]))

\* the sums of B[s] * X[s] over the columns 1..c, for c = 1..n
RECURSIVE PrefixSumsBX(_, _, _)
PrefixSumsBX(Brow, Xrow, n) ==
    IF n = 0 THEN <<>>
    ELSE LET before == PrefixSumsBX(Brow, Xrow, n - 1)
             last == IF n = 1 THEN EInt(0) ELSE before[n - 1]
         IN  Append(before, Add(last, BX(Brow, Xrow, n)))

\* the winnings recurrence on the columns 1..n of row r
RecurrenceUpTo(r, n) ==
    LET sums == PrefixSumsBX(B[r], X[r], n)
    IN  \A c \in 1..n :
          LET prev == IF c = 1 THEN EInt(0) ELSE Exact(W[r][c - 1])
          IN  /\ Exact(W[r][c]) = Add(prev, BX(B[r], X[r], c))
              /\ (c > 1 /\ ~EntersBetting(X[r], c - 1)) =>
                   W[r][c] = W[r][c - 1]
              /\ Exact(W[r][c]) = sums[c]

\* C3: winnings recurrence.  W[i,t] = W[i,t-1] + B[i,t] * X[i,t] with
\* W[i,-1] = 0; at every step where the path is Stopped W[i,t] = W[i,t-1];
\* so W[i,t] is the sum of B[i,s] * X[i,s] over s = 0..t.
C3_WinningsRecurrence ==
    Returned => \A r \in 1..n_paths : RecurrenceUpTo(r, n_steps)

\* C3 restricted to the steps t <= Width - 2.
C3_WinningsRecurrenceInRange ==
    Returned => \A r \in 1..n_paths : RecurrenceUpTo(r, Min(n_steps, Width - 1))

AllLosses(Xrow) == \A c \in 1..Len(Xrow) : Xrow[c] = -1

\* C4: no-overflow doubling.  A path whose tosses are all -1 has
\* B[i,t] = 2^t at every step t in 0..n_steps-1: never wrapped, negative
\* or zero.
C4_NoOverflowDoubling ==
    Returned =>
      \A r \in 1..n_paths : \A c \in 1..n_steps :
        AllLosses(X[r]) =>
          /\ Exact(B[r][c]) = EPow2(c - 1)
          /\ ~IsNeg(B[r][c])
          /\ B[r][c] # MInt(0)

\* C4 restricted to the steps t <= Width - 2, where 2^t fits.
C4_DoublingInRange ==
    Returned =>
      \A r \in 1..n_paths : \A c \in 1..Min(n_steps, Width - 1) :
        AllLosses(X[r]) => Exact(B[r][c]) = EPow2(c - 1)

\* C9: closed form of the winnings.  At every step t whose stakes have not
\* overflowed (the last stake placed, at step min(t, first win), is at most
\* 2^(Width-2)), W[i,t] = 1 if some toss X[i,s], s <= t, is +1 and
\* W[i,t] = -(2^(t+1) - 1) otherwise, and B[i,t] = 0 iff the path won at
\* some step s < t.
C9_ClosedForm ==
    Returned =>
      \A r \in 1..n_paths : \A c \in 1..n_steps :
        LET k == FirstWin(X[r])
        IN  (Min(c - 1, k) <= Width - 2) =>
              /\ Exact(W[r][c]) =
                   IF k <= c - 1 THEN EInt(1)
                   ELSE Add(Neg(EPow2(c)), EInt(1))
              /\ (B[r][c] = MInt(0)) <=> (k < c - 1)

\* C9 witness: a path that lost Width - 2 times in a row, holding winnings
\* of -(2^(Width-2) - 1), then won with the largest stake in range and was
\* stopped.
C9_Witness ==
    /\ Returned
    /\ FirstWin(X[1]) = Width - 2
    /\ Exact(W[1][Width - 2]) = Add(Neg(EPow2(Width - 2)), EInt(1))
    /\ W[1][Width - 1] = MInt(1)
    /\ B[1][Width - 1] # MInt(0)
    /\ B[1][Width] = MInt(0)

---------------------------------------------------------------------------
(* The simulation as a function of the toss matrix: the loop of lines      *)
(* 28-47 run to its end on one row.                                        *)

\* the state of a path after its steps 0..n-1: the row of B, the row of W,
\* and the flag
RECURSIVE SimulateRow(_, _)
SimulateRow(Xrow, n) ==
    IF n = 0 THEN [Brow |-> <<>>, Wrow |-> <<>>, flag |-> TRUE]
    ELSE LET s == SimulateRow(Xrow, n - 1)
             tt == n - 1
         IN  IF ~s.flag
             THEN [Brow |-> Append(s.Brow, MInt(0)),
                   Wrow |-> Append(s.Wrow, CarryForward(s.Wrow, tt)),
                   flag |-> FALSE]
             ELSE LET b == Stake(Xrow, s.Brow, tt)
                      delta == Delta(b, Xrow[tt + 1])
                  IN  [Brow |-> Append(s.Brow, b),
                       Wrow |-> Append(s.Wrow, Winnings(s.Wrow, tt, delta)),
                       flag |-> StillBetting(Xrow, tt)]

SimulateB(M) == [r \in 1..Len(M) |-> SimulateRow(M[r], Len(M[r])).Brow]

SimulateW(M) == [r \in 1..Len(M) |-> SimulateRow(M[r], Len(M[r])).Wrow]

\* the stepwise loop and the function agree on what is returned (on the
\* exhaustive toss matrices; the function is applied to short rows only)
SimulateAgrees ==
    (Returned /\ n_steps <= MaxSteps) => (B = SimulateB(X) /\ W = SimulateW(X))

---------------------------------------------------------------------------
(* Rationals <<numerator, denominator>>, denominator > 0: the values of     *)
(* np.mean and of tol.                                                     *)

Abs(v) == IF v < 0 THEN -v ELSE v

RECURSIVE Gcd(_, _)
Gcd(a, b) == IF b = 0 THEN a ELSE Gcd(b, a % b)

Rat(num, den) ==
    LET g == Gcd(Abs(num), den) IN <<num \div g, den \div g>>

RatSub(a, b) == Rat(a[1] * b[2] - b[1] * a[2], a[2] * b[2])

RatAbs(a) == <<Abs(a[1]), a[2]>>

RatLess(a, b) == a[1] * b[2] < b[1] * a[2]

RECURSIVE SumSeq(_)
SumSeq(v) == IF Len(v) = 0 THEN 0 ELSE v[1] + SumSeq(Tail(v))

\* np.mean of a list or a column
Mean(v) == Rat(SumSeq(v), Len(v))

---------------------------------------------------------------------------
(* conditional_expectation.py *)

\* line 32: np.cumsum(coin_tosses, axis=1)
RECURSIVE CumSum(_, _)
CumSum(row, n) ==
    IF n = 0 THEN <<>>
    ELSE LET before == CumSum(row, n - 1)
         IN  Append(before, (IF n = 1 THEN 0 ELSE before[n - 1]) + row[n])

build_partial_sums(M) == [r \in 1..Len(M) |-> CumSum(M[r], Len(M[r]))]

\* ValidT without the lower bound
ValidTNoLower(tt, ns) == tt < ns - 1

\* lines 48 and 71: the condition under which the call goes on
ValidT(tt, ns) == 0 <= tt /\ tt < ns - 1

\* HistoryKey one toss short: tuple(path[:t])
HistoryKeyShort(path, tt) == SubSeq(path, 1, tt)

\* line 52: tuple(path[: t + 1])
HistoryKey(path, tt) == SubSeq(path, 1, tt + 1)

\* line 53: path[t + 1]
HistoryNext(path, tt) == path[tt + 2]

\* line 75: S[t]
SumKey(S, tt) == S[tt + 1]

\* line 76: S[t + 1]
SumNext(S, tt) == S[tt + 2]

\* lines 54 and 77: groups.setdefault(key, []).append(value)
SetDefaultAppend(groups, key, value) ==
    IF key \in DOMAIN groups
    THEN [groups EXCEPT ![key] = Append(@, value)]
    ELSE groups @@ (key :> <<value>>)

\* lines 50-54: the loop over the paths, keyed by history
RECURSIVE GroupByHistory(_, _, _)
GroupByHistory(M, tt, n) ==
    IF n = 0 THEN <<>>
    ELSE SetDefaultAppend(GroupByHistory(M, tt, n - 1),
                          HistoryKey(M[n], tt), HistoryNext(M[n], tt))

\* lines 73-77: the loop over the paths, keyed by partial sum
RECURSIVE GroupBySum(_, _, _)
GroupBySum(M, tt, n) ==
    IF n = 0 THEN <<>>
    ELSE SetDefaultAppend(GroupBySum(M, tt, n - 1),
                          SumKey(M[n], tt), SumNext(M[n], tt))

\* lines 55 and 78: {key: np.mean(values)}
Means(groups) == [key \in DOMAIN groups |-> Mean(groups[key])]

\* the paths of the scenario of the estimator's documentation
ScenarioPaths == << <<1, 1, -1>>, <<1, 1, 1>>, <<1, -1, 1>> >>

EstMatrices == SmallMatrices \cup {ScenarioPaths}

InitEst ==
    /\ pc = "ready"
    /\ coin_tosses \in EstMatrices
    /\ et \in -1..(MaxSteps + 1)
    /\ est = Idle
    /\ n_paths = Idle /\ n_steps = Idle /\ X = Idle /\ B = Idle /\ W = Idle
    /\ i = 0 /\ t = 0 /\ betting = TRUE
    /\ process = Idle /\ tol = Idle /\ diffs = Idle

\* estimate_conditional_expectation (lines 35-55)
EstimateByHistory ==
    /\ pc = "ready"
    /\ pc' = "history"
    /\ est' = IF ~ValidT(et, Len(coin_tosses[1]))
              THEN [raised |-> "ValueError", groups |-> Idle, result |-> Idle]
              ELSE LET groups == GroupByHistory(coin_tosses, et, Len(coin_tosses))
                   IN  [raised |-> "", groups |-> groups, result |-> Means(groups)]
    /\ UNCHANGED <<coin_tosses, et, simVars, chkVars>>

\* estimate_conditional_expectation_sums (lines 58-78) on the partial sums
\* of the tosses
EstimateBySum ==
    /\ pc = "ready"
    /\ pc' = "sums"
    /\ LET partial_sums == build_partial_sums(coin_tosses)
       IN  est' = IF ~ValidT(et, Len(partial_sums[1]))
                  THEN [raised |-> "ValueError", groups |-> Idle, result |-> Idle]
                  ELSE LET groups == GroupBySum(partial_sums, et, Len(partial_sums))
                       IN  [raised |-> "", groups |-> groups, result |-> Means(groups)]
    /\ UNCHANGED <<coin_tosses, et, simVars, chkVars>>

NextEst == EstimateByHistory \/ EstimateBySum

SpecEst == InitEst /\ [][NextEst]_vars

---------------------------------------------------------------------------
(* Claims about the estimators *)

EstReturned == pc \in {"history", "sums"}

EstSteps == Len(coin_tosses[1])

EstPaths == Len(coin_tosses)

\* C5: range check on t.  Both estimators fail with the invalid-argument
\* error (Python's ValueError), returning no mapping and having grouped no
\* path, iff t is outside [0, n_steps - 2] (so for t = n_steps - 1, for
\* t < 0 and for every t when n_steps = 1); for every t inside the range
\* they return a mapping.
C5_RangeCheck ==
    EstReturned =>
      /\ (est.raised = "ValueError") <=> (et \notin 0..(EstSteps - 2))
      /\ (est.raised = "ValueError") => (est.result = Idle /\ est.groups = Idle)
      /\ (est.raised # "ValueError") =>
           (est.raised = "" /\ est.result # Idle /\ DOMAIN est.result # {})
      /\ (EstSteps = 1) => est.raised = "ValueError"
      /\ (et = EstSteps - 1 \/ et < 0) => est.raised = "ValueError"

\* C5 witness: a call with t = n_steps - 1 on a matrix of at least two
\* steps was rejected.
C5_Witness ==
    /\ EstReturned
    /\ EstSteps >= 2
    /\ et = EstSteps - 1
    /\ est.raised = "ValueError"

\* the sum of f[x] over the finite set S
RECURSIVE SumOver(_, _)
SumOver(f, S) ==
    IF S = {} THEN 0
    ELSE LET x == CHOOSE y \in S : TRUE IN f[x] + SumOver(f, S \ {x})

\* the key and the next-step value of path r, from the input matrix alone
KeyOf(r) ==
    IF pc = "history" THEN [k \in 1..(et + 1) |-> coin_tosses[r][k]]
    ELSE SumOver(coin_tosses[r], 1..(et + 1))

NextOf(r) ==
    IF pc = "history" THEN coin_tosses[r][et + 2]
    ELSE SumOver(coin_tosses[r], 1..(et + 2))

\* C6: estimator result.  The returned map has exactly one entry per
\* distinct key among the input paths and no other key; the group sizes sum
\* to n_paths, the group of a key holding exactly the paths with that key;
\* each value is the sum of the next-step values of those paths divided by
\* their number, so a group of one maps to its observation; the paths
\* [[1,1,-1],[1,1,1],[1,-1,1]] with t = 1 give (1,1) -> 0 and (1,-1) -> 1.
C6_EstimatorResult ==
    (EstReturned /\ est.raised = "") =>
      LET paths == 1..EstPaths
          next == [r \in paths |-> NextOf(r)]
          size == [key \in DOMAIN est.groups |-> Len(est.groups[key])]
      IN  /\ DOMAIN est.result = {KeyOf(r) : r \in paths}
          /\ DOMAIN est.groups = DOMAIN est.result
          /\ SumOver(size, DOMAIN size) = EstPaths
          /\ \A key \in DOMAIN est.result :
               LET members == {r \in paths : KeyOf(r) = key}
                   mean == est.result[key]
               IN  /\ size[key] = Cardinality(members)
                   /\ mean[2] > 0
                   /\ mean[1] * Cardinality(members) =
                        mean[2] * SumOver(next, members)
                   /\ Gcd(Abs(mean[1]), mean[2]) = 1
                   /\ (Cardinality(members) = 1) =>
                        \E r \in members : mean = <<next[r], 1>>
          /\ (pc = "history" /\ coin_tosses = ScenarioPaths /\ et = 1) =>
               est.result = (<<1, 1>> :> <<0, 1>>) @@ (<<1, -1>> :> <<1, 1>>)

\* C6 witness: the documented scenario was estimated by history, giving two
\* groups, one of two paths and one of a single path.
C6_Witness ==
    /\ pc = "history"
    /\ coin_tosses = ScenarioPaths
    /\ et = 1
    /\ est.raised = ""
    /\ Cardinality(DOMAIN est.result) = 2
    /\ Len(est.groups[<<1, 1>>]) = 2
    /\ Len(est.groups[<<1, -1>>]) = 1

\* C6 witness for the partial-sum estimator: two paths that differ at step 0
\* and share the partial sum at t = 1 fall in one group.
C6_SumWitness ==
    /\ pc = "sums"
    /\ est.raised = ""
    /\ et = 1
    /\ \E r1, r2 \in 1..EstPaths :
         /\ coin_tosses[r1][1] # coin_tosses[r2][1]
         /\ KeyOf(r1) = KeyOf(r2)
         /\ Len(est.groups[KeyOf(r1)]) = 2

---------------------------------------------------------------------------
(* check_martingale_property_by_time (martingales.py 52-70) *)

\* process[:, c]
Column(M, c) == [r \in 1..Len(M) |-> M[r][c]]

\* Within with the comparison turned round
WithinFlipped(mean_next, mean_prev, tl) ==
    RatLess(tl, RatAbs(RatSub(mean_next, mean_prev)))

\* Within with a non-strict comparison
WithinOrEqual(mean_next, mean_prev, tl) ==
    ~RatLess(tl, RatAbs(RatSub(mean_next, mean_prev)))

\* line 69: abs(mean_next - mean_prev) < tol
Within(mean_next, mean_prev, tl) == RatLess(RatAbs(RatSub(mean_next, mean_prev)), tl)

\* lines 65-70: one boolean per t in range(n_steps - 1)
CheckByTime(M, tl) ==
    [c \in 1..(Len(M[1]) - 1) |->
        LET mean_prev == Mean(Column(M, c))
            mean_next == Mean(Column(M, c + 1))
        IN  Within(mean_next, mean_prev, tl)]

\* the toss matrix holding every sequence of {-1,+1}^n exactly once
Complete(n) ==
    [r \in 1..(2 ^ n) |->
        [c \in 1..n |-> IF ((r - 1) \div (2 ^ (c - 1))) % 2 = 1 THEN 1 ELSE -1]]

\* line 67: np.mean reads the integers of a matrix as numbers
AsNumbers(M) == [r \in 1..Len(M) |-> [c \in 1..Len(M[r]) |-> ToInt(M[r][c])]]

CompleteX == {Complete(n) : n \in 1..MaxAll}

CompleteW == {AsNumbers(SimulateW(Complete(n))) : n \in 1..MaxAll}

\* the processes given to the function: toss matrices, their partial sums,
\* and the complete toss matrices with the winnings simulated on them
Processes ==
    SmallMatrices \cup {build_partial_sums(M) : M \in SmallMatrices}
        \cup CompleteX \cup CompleteW

\* line 52: the default tolerance 1e-6 and other values a caller may pass
DefaultTol == <<1, 1000000>>

Tolerances == {DefaultTol, <<1, 2>>, <<1, 1>>, <<2, 1>>, <<0, 1>>, <<-1, 2>>}

InitChk ==
    /\ pc = "ready"
    /\ process \in Processes
    /\ tol \in Tolerances
    /\ diffs = Idle
    /\ n_paths = Idle /\ n_steps = Idle /\ X = Idle /\ B = Idle /\ W = Idle
    /\ i = 0 /\ t = 0 /\ betting = TRUE
    /\ coin_tosses = Idle /\ et = 0 /\ est = Idle

CheckMartingale ==
    /\ pc = "ready"
    /\ pc' = "checked"
    /\ diffs' = CheckByTime(process, tol)
    /\ UNCHANGED <<process, tol, simVars, estVars>>

NextChk == CheckMartingale

SpecChk == InitChk /\ [][NextChk]_vars

---------------------------------------------------------------------------
(* Claims about the checker *)

Checked == pc = "checked"

ColSum(c) == SumOver(Column(process, c), 1..Len(process))

ChkSteps == Len(process[1])

ChkPaths == Len(process)

ConstantColumnSums == \A c \in 1..ChkSteps : ColSum(c) = ColSum(1)

AllTrue == \A c \in 1..Len(diffs) : diffs[c] = TRUE

\* C7 as stated: on a process whose column sums are equal at all steps the
\* check returns True at every index, for every shape and every tolerance
\* the function accepts.
C7_ConstantMeanAllTrue ==
    (Checked /\ ConstantColumnSums) => AllTrue

\* C7 as amended: on a process whose column sums are equal at all steps the
\* check returns True at every index, for every shape and every tolerance
\* tol > 0.
C7_ConstantMeanPositiveTol ==
    (Checked /\ ConstantColumnSums /\ tol[1] > 0) => AllTrue

\* C7 witness: a process of at least two paths and three steps, not all of
\* its entries equal, with equal column sums, was checked with the default
\* tolerance.
C7_Witness ==
    /\ Checked
    /\ tol = DefaultTol
    /\ ChkPaths >= 2 /\ ChkSteps >= 3
    /\ ConstantColumnSums
    /\ \E r \in 1..ChkPaths : process[r][1] # process[r][2]
    /\ Len(diffs) = ChkSteps - 1

\* C8: the result has exactly n_steps - 1 booleans (none when n_steps = 1);
\* its entry for t is True iff |mean of column t+1 - mean of column t| < tol,
\* strictly, that is iff |colsum(t+1) - colsum(t)| < tol * n_paths; a step
\* whose mean rises by more than tol gives False at that index.
C8_CheckResult ==
    Checked =>
      /\ Len(diffs) = ChkSteps - 1
      /\ DOMAIN diffs = 1..(ChkSteps - 1)
      /\ \A c \in 1..(ChkSteps - 1) :
           /\ diffs[c] \in BOOLEAN
           /\ diffs[c] <=>
                (Abs(ColSum(c + 1) - ColSum(c)) * tol[2] < tol[1] * ChkPaths)
           /\ ((ColSum(c + 1) - ColSum(c)) * tol[2] > tol[1] * ChkPaths) =>
                diffs[c] = FALSE

\* C8, with the input left as it was: the check never modifies the process.
C8_CheckResultAndFrame == []C8_CheckResult /\ [][process' = process]_vars

\* C8 witness: a process whose mean rises by exactly tol at one step (False
\* there, the comparison being strict) and stays within tol at another.
C8_Witness ==
    /\ Checked
    /\ ChkSteps >= 3
    /\ \E c1, c2 \in 1..(ChkSteps - 1) :
         /\ (ColSum(c1 + 1) - ColSum(c1)) * tol[2] = tol[1] * ChkPaths
         /\ diffs[c1] = FALSE
         /\ diffs[c2] = TRUE

\* C10: fair game.  When the toss matrix holds all 2^n sequences of
\* {-1,+1}^n once each, the winnings W of the betting machine have column
\* sum 0 at every step, so the check of W returns True at every index for
\* any tol > 0; the same holds for the toss matrix X itself.
C10_FairGame ==
    (Checked /\ process \in CompleteW \cup CompleteX) =>
        /\ \A c \in 1..ChkSteps : ColSum(c) = 0
        /\ (tol[1] > 0) => AllTrue

\* C10 witness: the winnings on the complete toss matrix of three steps,
\* where some path holds -7 and the others hold 1, were checked with the
\* default tolerance.
C10_Witness ==
    /\ Checked
    /\ tol = DefaultTol
    /\ process \in CompleteW
    /\ ChkSteps = 3
    /\ \E r \in 1..ChkPaths : process[r][3] = -7
    /\ \E r \in 1..ChkPaths : process[r][1] = -1 /\ process[r][3] = 1
    /\ diffs = <<TRUE, TRUE>>

=============================================================================
